---- MODULE Spec2Model ----
(***************************************************************************)
(* polars-plan, logical_plan/schema.rs: FileInfo's hive-partition merge,   *)
(* det_join_schema and set_estimated_row_counts.                           *)
(***************************************************************************)
EXTENDS Integers, Sequences, FiniteSets, TLC

VARIABLES
    fi,        \* the FileInfo: schema, reader_schema, row_estimation, hive_parts
    fiPrev,    \* the FileInfo as it was before the last call
    fiCall,    \* the last call on the FileInfo: op, path, result
    joinIn,    \* the arguments of det_join_schema
    joinOut,   \* its PolarsResult<SchemaRef>
    arena,     \* lp_arena: the plan nodes by handle
    stack,     \* the frames of set_estimated_row_counts awaiting a recursive call
    scratch,   \* the scratch Vec<Node> threaded through the recursion
    ctl,       \* the call being entered, or the value being returned
    overflowed \* an unchecked usize operation has wrapped

varsHive == <<fi, fiPrev, fiCall>>

varsJoin == <<joinIn, joinOut>>

varsEst == <<arena, stack, scratch, ctl, overflowed>>

vars == <<fi, fiPrev, fiCall, joinIn, joinOut, arena, stack, scratch, ctl, overflowed>>

\* Option<T>: None is the empty sequence, Some(x) the sequence of x alone.
None == <<>>

Some(x) == <<x>>

Unwrap(o) == o[1]

(***************************************************************************)
(* Schema: an ordered map name -> dtype (an IndexMap).  A name is a        *)
(* sequence of string pieces, so that format!("{}{}", name, suffix) is     *)
(* concatenation.                                                          *)
(***************************************************************************)
Field(n, t) == [name |-> n, dtype |-> t]

SchemaNames(schema) == {schema[i].name : i \in 1..Len(schema)}

contains(schema, n) == n \in SchemaNames(schema)

IndexOf(schema, n) == CHOOSE i \in 1..Len(schema) : schema[i].name = n

get(schema, n) == schema[IndexOf(schema, n)].dtype

\* Schema::with_column: an existing name keeps its place and takes the new
\* dtype; a new name is appended.
with_column(schema, n, t) ==
    IF contains(schema, n)
    THEN [schema EXCEPT ![IndexOf(schema, n)].dtype = t]
    ELSE Append(schema, Field(n, t))

\* Schema::merge: every field of other is inserted in order.
RECURSIVE merge(_, _)
merge(schema, other) ==
    IF other = <<>> THEN schema
    ELSE merge(with_column(schema, Head(other).name, Head(other).dtype), Tail(other))

(***************************************************************************)
(* FileInfo and the hive partition merger                                  *)
(***************************************************************************)
Int64 == "Int64"
Utf8 == "Utf8"

\* The paths a scan is pointed at, and what hive::HivePartitions::parse_url
\* makes of each: None, or the partition columns read from the path.
Paths == {"f.parquet", "p=1/f", "p=2/f", "p=1/q=1/f", "a=x/f", "a=x/q=1/f"}

HiveSchemaOf(url) ==
    CASE url = "p=1/f"     -> <<Field(<<"p">>, Int64)>>
      [] url = "p=2/f"     -> <<Field(<<"p">>, Int64)>>
      [] url = "p=1/q=1/f" -> <<Field(<<"p">>, Int64), Field(<<"q">>, Int64)>>
      [] url = "a=x/f"     -> <<Field(<<"a">>, Utf8)>>
      [] url = "a=x/q=1/f" -> <<Field(<<"a">>, Utf8), Field(<<"q">>, Int64)>>

parse_url(url) ==
    IF url = "f.parquet" THEN None
    ELSE Some([url |-> url, schema |-> HiveSchemaOf(url)])

FileSchemas ==
    { <<Field(<<"a">>, Int64)>>,
      <<Field(<<"a">>, Int64), Field(<<"b">>, Utf8)>>,
      <<Field(<<"b">>, Utf8), Field(<<"q">>, Utf8)>> }

RowEstimations == { <<None, 0>>, <<Some(5), 5>> }

\* FileInfo::new
FileInfoNew(schema, reader_schema, row_estimation) ==
    [schema |-> schema, reader_schema |-> reader_schema,
     row_estimation |-> row_estimation, hive_parts |-> None]

Ok == "Ok"
ComputeError == "ComputeError"

\* The length check of line 83 left out.
EnsureLenSkipped(schema, expected_len) == TRUE

\* polars_ensure!(schema.len() == expected_len, ComputeError: ...)
EnsureLen(schema, expected_len) == Len(schema) = expected_len

\* init_hive_partitions: the schema is merged in place (Arc::make_mut) before
\* the length check; hive_parts is assigned only when the closure returned Ok.
init_hive_partitions(url) ==
    LET parsed == parse_url(url) IN
    /\ fiPrev' = fi
    /\ IF parsed = None
       THEN /\ fi' = [fi EXCEPT !.hive_parts = None]
            /\ fiCall' = [op |-> "init", url |-> url, res |-> Ok]
       ELSE LET hive_schema == Unwrap(parsed).schema
                expected_len == Len(fi.schema) + Len(hive_schema)
                schema == merge(fi.schema, hive_schema)
            IN IF EnsureLen(schema, expected_len)
               THEN /\ fi' = [fi EXCEPT !.schema = schema, !.hive_parts = parsed]
                    /\ fiCall' = [op |-> "init", url |-> url, res |-> Ok]
               ELSE /\ fi' = [fi EXCEPT !.schema = schema]
                    /\ fiCall' = [op |-> "init", url |-> url, res |-> ComputeError]
    /\ UNCHANGED <<varsJoin, varsEst>>

\* update_hive_partitions without the error on a path that is not partitioned.
update_hive_partitions_lenient(url) ==
    /\ fiPrev' = fi
    /\ fi' = IF fi.hive_parts # None THEN [fi EXCEPT !.hive_parts = parse_url(url)] ELSE fi
    /\ fiCall' = [op |-> "update", url |-> url, res |-> Ok]
    /\ UNCHANGED <<varsJoin, varsEst>>

\* update_hive_partitions
update_hive_partitions(url) ==
    /\ fiPrev' = fi
    /\ IF fi.hive_parts # None
       THEN LET new == parse_url(url) IN
            IF new = None
            THEN /\ fi' = fi
                 /\ fiCall' = [op |-> "update", url |-> url, res |-> ComputeError]
            ELSE /\ fi' = [fi EXCEPT !.hive_parts = new]
                 /\ fiCall' = [op |-> "update", url |-> url, res |-> Ok]
       ELSE /\ fi' = fi
            /\ fiCall' = [op |-> "update", url |-> url, res |-> Ok]
    /\ UNCHANGED <<varsJoin, varsEst>>

NoCall == [op |-> "none", url |-> "", res |-> Ok]

JoinIdle == /\ joinIn = None
            /\ joinOut = None

\* No estimator pass is running.
Idle == [mode |-> "idle", node |-> 0, fc |-> 0, val |-> <<>>]

EstIdle ==
    /\ arena = <<>>
    /\ stack = <<>>
    /\ scratch = <<>>
    /\ ctl = Idle
    /\ overflowed = FALSE

InitHive ==
    /\ \E s \in FileSchemas, r \in RowEstimations :
          fi = FileInfoNew(s, Some(s), r)
    /\ fiPrev = fi
    /\ fiCall = NoCall
    /\ JoinIdle
    /\ EstIdle

InitHiveCall == \E url \in Paths : init_hive_partitions(url)

UpdateHiveCall == \E url \in Paths : update_hive_partitions(url)

NextHive == InitHiveCall \/ UpdateHiveCall

SpecHive == InitHive /\ [][NextHive]_vars

InitCalled == fiCall.op = "init"

UpdateCalled == fiCall.op = "update"

Collides(schema, hive_schema) == SchemaNames(schema) \cap SchemaNames(hive_schema) # {}

\* C6: init_hive_partitions on a path that parses as hive-partitioned fails
\* with ComputeError when a partition column name is already in the file
\* schema; otherwise it succeeds, sets the partition info, and the schema is
\* the file columns in their order followed by the partition columns.
C6_InitHiveMerge ==
    (InitCalled /\ parse_url(fiCall.url) # None) =>
        LET hive_schema == Unwrap(parse_url(fiCall.url)).schema IN
        IF Collides(fiPrev.schema, hive_schema)
        THEN fiCall.res = ComputeError
        ELSE /\ fiCall.res = Ok
             /\ fi.hive_parts = parse_url(fiCall.url)
             /\ Len(fi.schema) = Len(fiPrev.schema) + Len(hive_schema)
             /\ SubSeq(fi.schema, 1, Len(fiPrev.schema)) = fiPrev.schema

\* A successful merge of two new partition columns into a file schema.
C6_Witness ==
    /\ InitCalled
    /\ fiCall.res = Ok
    /\ fi.hive_parts # None
    /\ Len(fiPrev.schema) >= 1
    /\ Len(fi.schema) = Len(fiPrev.schema) + 2

\* C7: update_hive_partitions never changes the schema, reader schema or row
\* estimation; without partition info it is a successful no-op for every
\* path; with partition info it fails on a path that does not parse, keeping
\* the partition info, and replaces the partition info on one that does.
C7_UpdateHiveFrame ==
    UpdateCalled =>
        /\ fi.schema = fiPrev.schema
        /\ fi.reader_schema = fiPrev.reader_schema
        /\ fi.row_estimation = fiPrev.row_estimation
        /\ (fiPrev.hive_parts = None => (fiCall.res = Ok /\ fi = fiPrev))
        /\ (fiPrev.hive_parts # None /\ parse_url(fiCall.url) = None
               => (fiCall.res = ComputeError /\ fi.hive_parts = fiPrev.hive_parts))
        /\ (fiPrev.hive_parts # None /\ parse_url(fiCall.url) # None
               => (fiCall.res = Ok /\ fi.hive_parts = parse_url(fiCall.url)))

\* An update that replaced the partition info by that of another path.
C7_Witness ==
    /\ UpdateCalled
    /\ fiCall.res = Ok
    /\ fiPrev.hive_parts # None
    /\ fi.hive_parts # fiPrev.hive_parts

\* C10: when init_hive_partitions fails with the schema-collision error the
\* FileInfo's schema and partition info are as they were before the call.
C10_FailedInitLeavesFileInfo ==
    (InitCalled /\ fiCall.res = ComputeError) =>
        (fi.schema = fiPrev.schema /\ fi.hive_parts = fiPrev.hive_parts)

(***************************************************************************)
(* det_join_schema                                                         *)
(***************************************************************************)
\* An Expr of a join key: a column, optionally cast, optionally aliased.
Col(c, alias, cast) == [col |-> c, alias |-> alias, cast |-> cast]

ColumnNotFound == "ColumnNotFound"

Resolves(e, schema) == contains(schema, e.col)

\* Expr::to_field_amortized: the output field of e against schema.
to_field(e, schema) ==
    Field(IF e.alias = None THEN e.col ELSE Unwrap(e.alias),
          IF e.cast = None THEN get(schema, e.col) ELSE Unwrap(e.cast))

\* JoinType
JoinType(kind, coalesce, left_by, right_by) ==
    [kind |-> kind, coalesce |-> coalesce, left_by |-> left_by, right_by |-> right_by]

\* JoinType::merges_join_keys: false for the as-of join.
merges_join_keys(how) == how.kind # "AsOf"

\* format_smartstring!("{}{}", name, suffix) and _join_suffix_name
join_suffix_name(name, suffix) == name \o suffix

InSeq(x, sq) == \E i \in 1..Len(sq) : sq[i] = x

\* Lines 299-303: the field of every left key is written into the schema.
RECURSIVE LeftKeyFields(_, _, _)
LeftKeyFields(new_schema, left_on, schema_left) ==
    IF left_on = <<>> THEN new_schema
    ELSE LET field == to_field(Head(left_on), schema_left) IN
         LeftKeyFields(with_column(new_schema, field.name, field.dtype),
                       Tail(left_on), schema_left)

\* Lines 308-325: in a join that does not merge its keys, a right key whose
\* name differs from its left key's is added.
RECURSIVE AsofKeyFields(_, _, _, _, _, _)
AsofKeyFields(new_schema, left_on, right_on, schema_left, schema_right, suffix) ==
    IF left_on = <<>> \/ right_on = <<>> THEN new_schema
    ELSE LET field_left == to_field(Head(left_on), schema_left)
             field_right == to_field(Head(right_on), schema_right)
             next == IF field_left.name # field_right.name
                     THEN IF contains(schema_left, field_right.name)
                          THEN with_column(new_schema,
                                           join_suffix_name(field_right.name, suffix),
                                           field_right.dtype)
                          ELSE with_column(new_schema, field_right.name, field_right.dtype)
                     ELSE new_schema
         IN AsofKeyFields(next, Tail(left_on), Tail(right_on),
                          schema_left, schema_right, suffix)

\* Lines 327-331
JoinOnRight(right_on, schema_right) ==
    {to_field(right_on[i], schema_right).name : i \in 1..Len(right_on)}

\* Line 338: the test that decides whether a right column takes the suffix.
CollidesLeft(new_schema, schema_left, name) == contains(schema_left, name)

\* Lines 334-335: the right column is not a merged join key.
IsAppended(name, join_on_right, how) ==
    \/ name \notin join_on_right
    \/ (how.kind = "Outer" /\ ~how.coalesce)

\* Lines 340-351: a column in both 'by' lists of an as-of join is skipped.
IsAsofBy(name, how) ==
    /\ how.kind = "AsOf"
    /\ how.left_by # None
    /\ how.right_by # None
    /\ InSeq(name, Unwrap(how.left_by))
    /\ InSeq(name, Unwrap(how.right_by))

\* Lines 333-359
RECURSIVE RightColumns(_, _, _, _, _, _)
RightColumns(new_schema, rest, schema_left, join_on_right, how, suffix) ==
    IF rest = <<>> THEN new_schema
    ELSE LET name == Head(rest).name
             dtype == Head(rest).dtype
             next == IF IsAppended(name, join_on_right, how)
                     THEN IF CollidesLeft(new_schema, schema_left, name)
                          THEN IF IsAsofBy(name, how)
                               THEN new_schema
                               ELSE with_column(new_schema,
                                                join_suffix_name(name, suffix), dtype)
                          ELSE with_column(new_schema, name, dtype)
                     ELSE new_schema
         IN RightColumns(next, Tail(rest), schema_left, join_on_right, how, suffix)

AllResolve(on, schema) == \A i \in 1..Len(on) : Resolves(on[i], schema)

\* The schema as it stands before the right columns are appended (line 332).
RunningSchema(schema_left, schema_right, left_on, right_on, how, suffix) ==
    LET keyed == LeftKeyFields(merge(<<>>, schema_left), left_on, schema_left) IN
    IF merges_join_keys(how) THEN keyed
    ELSE AsofKeyFields(keyed, left_on, right_on, schema_left, schema_right, suffix)

\* Line 286 with only the Semi arm.
SemiOnly(kind) == kind = "Semi"

\* Line 286
SemiAnti(kind) == kind \in {"Semi", "Anti"}

JoinOk(schema) == [ok |-> TRUE, schema |-> schema]

JoinErr(e) == [ok |-> FALSE, err |-> e]

det_join_schema(schema_left, schema_right, left_on, right_on, how, suffix) ==
    IF SemiAnti(how.kind) THEN JoinOk(schema_left)
    ELSE IF ~AllResolve(left_on, schema_left) \/ ~AllResolve(right_on, schema_right)
    THEN JoinErr(ColumnNotFound)
    ELSE JoinOk(RightColumns(
             RunningSchema(schema_left, schema_right, left_on, right_on, how, suffix),
             schema_right, schema_left, JoinOnRight(right_on, schema_right), how, suffix))

\* The inputs det_join_schema is applied to.
MaxCols == 2

MaxKeys == 1

Names == {<<"a">>, <<"b">>}

Dtypes == {Int64, Utf8}

Distinct(sq) == \A i, j \in 1..Len(sq) : sq[i].name = sq[j].name => i = j

Schemas ==
    UNION { {sq \in [1..n -> [name : Names, dtype : Dtypes]] : Distinct(sq)} : n \in 0..MaxCols }

LeftExprs == {Col(c, al, ca) : c \in Names, al \in {None, Some(<<"b">>)}, ca \in {None, Some(Utf8)}}

RightExprs == {Col(c, al, None) : c \in Names, al \in {None, Some(<<"b">>)}}

Suffixes == {<<"_right">>, <<"_r">>}

JoinTypes ==
    {JoinType(k, TRUE, None, None) : k \in {"Inner", "Left", "Outer", "Cross", "Semi", "Anti", "AsOf"}}
    \cup {JoinType("Outer", FALSE, None, None)}
    \cup {JoinType("AsOf", TRUE, Some(<<<<"a">>>>), Some(<<<<"a">>>>)),
          JoinType("AsOf", TRUE, Some(<<<<"a">>>>), Some(<<<<"b">>>>))}

HiveIdle ==
    /\ fi = FileInfoNew(<<>>, None, <<None, 0>>)
    /\ fiPrev = fi
    /\ fiCall = NoCall

InitJoin ==
    /\ HiveIdle
    /\ EstIdle
    /\ \E sl \in Schemas, sr \in Schemas, n \in 0..MaxKeys, how \in JoinTypes, sfx \in Suffixes :
          \E lo \in [1..n -> LeftExprs], ro \in [1..n -> RightExprs] :
             joinIn = Some([schema_left |-> sl, schema_right |-> sr, left_on |-> lo,
                            right_on |-> ro, how |-> how, suffix |-> sfx])
    /\ joinOut = None

DetJoinSchemaCall ==
    /\ joinIn # None
    /\ joinOut = None
    /\ LET a == Unwrap(joinIn) IN
         joinOut' = Some(det_join_schema(a.schema_left, a.schema_right, a.left_on,
                                         a.right_on, a.how, a.suffix))
    /\ UNCHANGED <<varsHive, joinIn, varsEst>>

NextJoin == DetJoinSchemaCall

SpecJoin == InitJoin /\ [][NextJoin]_vars

JoinArgs == Unwrap(joinIn)

JoinResult == Unwrap(joinOut)

JoinDone == joinIn # None /\ joinOut # None

\* C8: for a Semi or Anti join det_join_schema returns exactly schema_left,
\* whatever the right schema, the key expressions and the suffix, and never
\* an error.
C8_SemiAntiKeepsLeft ==
    (JoinDone /\ JoinArgs.how.kind \in {"Semi", "Anti"}) =>
        (JoinResult.ok /\ JoinResult.schema = JoinArgs.schema_left)

\* An Anti join whose keys resolve against neither schema and whose right
\* schema has a column the left schema lacks.
C8_Witness ==
    /\ JoinDone
    /\ JoinArgs.how.kind = "Anti"
    /\ Len(JoinArgs.left_on) = 1
    /\ ~AllResolve(JoinArgs.left_on, JoinArgs.schema_left)
    /\ ~AllResolve(JoinArgs.right_on, JoinArgs.schema_right)
    /\ \E i \in 1..Len(JoinArgs.schema_right) :
          ~contains(JoinArgs.schema_left, JoinArgs.schema_right[i].name)
    /\ JoinResult.ok
    /\ JoinResult.schema = JoinArgs.schema_left

RunningOf(a) ==
    RunningSchema(a.schema_left, a.schema_right, a.left_on, a.right_on, a.how, a.suffix)

\* C1: in a join other than Semi/Anti, a right column that is appended while
\* its name is already in the running schema is added under name+suffix, and
\* the column already there keeps its name and dtype; only a column in both
\* 'by' lists of an as-of join is dropped instead.
C1_CollisionTakesSuffix ==
    (JoinDone /\ JoinArgs.how.kind \notin {"Semi", "Anti"} /\ JoinResult.ok) =>
        LET a == JoinArgs
            running == RunningOf(a)
        IN \A i \in 1..Len(a.schema_right) :
              LET name == a.schema_right[i].name IN
              ( /\ IsAppended(name, JoinOnRight(a.right_on, a.schema_right), a.how)
                /\ contains(running, name)
                /\ ~IsAsofBy(name, a.how) )
              => /\ contains(JoinResult.schema, join_suffix_name(name, a.suffix))
                 /\ get(JoinResult.schema, join_suffix_name(name, a.suffix))
                       = a.schema_right[i].dtype
                 /\ get(JoinResult.schema, name) = get(running, name)

(***************************************************************************)
(* set_estimated_row_counts                                                *)
(***************************************************************************)
\* usize is modelled with UsizeBits bits.
UsizeBits == 10

USIZE_MAX == 2^UsizeBits - 1

Wrap(x) == x % (2^UsizeBits)

Min(a, b) == IF a < b THEN a ELSE b

saturating_add(a, b) == Min(a + b, USIZE_MAX)

\* 0.9f32.powf(n as f32) is Pow09Mant[n] / 2^Pow09Exp[n], the f32 nearest to
\* 0.9f32^n, for n up to 72; beyond that the product with any usize of up to
\* 11 bits is below 1.
Pow09Mant ==
    <<15099494, 13589544, 12230589, 11007530, 9906777, 8916099, 16048978,
      14444080, 12999671, 11699704, 10529733, 9476760, 8529083, 15352350,
      13817114, 12435403, 11191862, 10072676, 9065408, 16317734, 14685960,
      13217364, 11895627, 10706064, 9635457, 8671911, 15609440, 14048496,
      12643646, 11379281, 10241353, 9217217, 16590990, 14931891, 13438701,
      12094831, 10885347, 9796812, 8817131, 15870835, 14283751, 12855376,
      11569838, 10412854, 9371568, 8434411, 15181940, 13663746, 12297371,
      11067633, 9960870, 8964783, 16136608, 14522947, 13070652, 11763586,
      10587227, 9528504, 8575654, 15436176, 13892558, 12503302, 11252972,
      10127674, 9114907, 16406831, 14766148, 13289533, 11960579, 10764521,
      9688069, 8719262>>

Pow09Exp ==
    <<24, 24, 24, 24, 24, 24, 25, 25, 25, 25, 25, 25, 25, 26, 26, 26, 26, 26,
      26, 27, 27, 27, 27, 27, 27, 27, 28, 28, 28, 28, 28, 28, 29, 29, 29, 29,
      29, 29, 29, 30, 30, 30, 30, 30, 30, 30, 31, 31, 31, 31, 31, 31, 32, 32,
      32, 32, 32, 32, 32, 33, 33, 33, 33, 33, 33, 34, 34, 34, 34, 34, 34, 34>>

RECURSIVE Log2Floor(_)
Log2Floor(x) == IF x < 2 THEN 0 ELSE 1 + Log2Floor(x \div 2)

\* (estimated_size as f32 * 0.9f32.powf(filter_count as f32)) as usize: the
\* product is rounded to the nearest f32 (24 significant bits, ties to even)
\* and truncated.  The product is formed in two 12-bit halves of the
\* mantissa; it rounds up to the next integer when it is within half an ulp
\* of it.
F32MulTrunc(est, n) ==
    IF n > Len(Pow09Mant) THEN 0
    ELSE LET m == Pow09Mant[n]
             x == Pow09Exp[n]
             b == est * (m % 4096)
             hi == est * (m \div 4096) + (b \div 4096)
             lo == b % 4096
             unit == 2^(x - 12)
             whole == hi \div unit
             below == unit - (hi % unit)
             k == x + Log2Floor(whole) - 24
         IN IF whole = 0 THEN 0
            ELSE IF below <= 2^18 /\ below * 4096 - lo <= 2^k THEN whole + 1
            ELSE whole

\* A result triple is <<known, estimated, filter_count>>, a pair <<known, estimated>>.
estimate_sizes(known_size, estimated_size, filter_count) ==
    IF filter_count = 0 THEN <<known_size, estimated_size>>
    ELSE <<None, F32MulTrunc(estimated_size, filter_count)>>

apply_slice(out, slice) ==
    IF slice = None THEN out
    ELSE LET len == Unwrap(slice)[2] IN
         << IF out[1] = None THEN None ELSE Some(Min(len, Unwrap(out[1]))),
            Min(len, out[2]),
            out[3] >>

\* Lines 202-226, before any wrap: the join's combined triple.
JoinCombine(how, rows_left, rows_right, filter_count_left) ==
    CASE how.kind = "Left" -> <<rows_left[1], rows_left[2], filter_count_left>>
      [] how.kind \in {"Cross", "Outer"} ->
            IF rows_left[1] # None /\ rows_right[1] # None
            THEN <<Some(Unwrap(rows_left[1]) * Unwrap(rows_right[1])),
                   rows_left[2], rows_right[2]>>
            ELSE <<None, rows_left[2] * rows_right[2], 0>>
      [] OTHER ->
            IF rows_left[2] > rows_right[2]
            THEN <<rows_left[1], rows_left[2], 0>>
            ELSE <<rows_right[1], rows_right[2], 0>>

\* Lines 263-268, before any wrap: one input's result added to sum_output.
GenericSum(sum_output, out) ==
    << IF sum_output[1] = None THEN out[1] ELSE sum_output[1],
       sum_output[2] + out[2],
       sum_output[3] + out[3] >>

TripleOverflows(t) ==
    \/ (t[1] # None /\ Unwrap(t[1]) > USIZE_MAX)
    \/ t[2] > USIZE_MAX
    \/ t[3] > USIZE_MAX

WrapTriple(t) ==
    << IF t[1] = None THEN None ELSE Some(Wrap(Unwrap(t[1]))), Wrap(t[2]), Wrap(t[3]) >>

\* ALogicalPlan: the variants the estimator tells apart.  Sort stands for the
\* single-input nodes of the last match arm and HConcat for those with
\* several inputs.
Selection(input, nbin) == [kind |-> "Selection", input |-> input, nbin |-> nbin]

Slice(input, len) == [kind |-> "Slice", input |-> input, len |-> len]

Union(inputs, slice) ==
    [kind |-> "Union", inputs |-> inputs, slice |-> slice, rows |-> <<None, 0>>]

Join(input_left, input_right, how, slice) ==
    [kind |-> "Join", input_left |-> input_left, input_right |-> input_right,
     how |-> how, slice |-> slice, rows_left |-> <<None, 0>>, rows_right |-> <<None, 0>>]

DataFrameScan(height) == [kind |-> "DataFrameScan", height |-> height]

Scan(row_estimation) == [kind |-> "Scan", row_estimation |-> row_estimation]

PythonScan == [kind |-> "PythonScan"]

Sort(input) == [kind |-> "Sort", input |-> input]

HConcat(inputs) == [kind |-> "HConcat", inputs |-> inputs]

\* ALogicalPlan::default(), what Arena::take leaves at the handle.
DefaultLp == [kind |-> "Default"]

\* ALogicalPlan::copy_inputs: the node's direct inputs, in order.
copy_inputs(lp) == IF lp.kind = "Sort" THEN <<lp.input>> ELSE lp.inputs

\* The plans the estimator is run on are built as the plan builder builds
\* them, inputs first (Arena::add): a node's inputs have smaller handles than
\* the node, so the graph is acyclic, and a handle may be the input of several
\* nodes.  Every Union and Join of one plan carries the same slice setting.
MaxNodes == 4

SliceLen == 5

DfHeights == {10}

ScanRowEstimations == { <<Some(20), 30>>, <<None, 50>> }

PredicateBinaryExprs == {1}

EstJoinTypes == {JoinType(k, TRUE, None, None) : k \in {"Inner", "Left", "Outer", "Cross"}}

SliceOptions == {None, Some(<<0, SliceLen>>)}

Leaves ==
    {DataFrameScan(h) : h \in DfHeights}
    \cup {Scan(r) : r \in ScanRowEstimations}
    \cup {PythonScan}

\* The slice settings a new Union or Join may carry.
SlicesFor(a) ==
    {sl \in SliceOptions :
        \A h \in 1..Len(a) : a[h].kind \in {"Union", "Join"} => a[h].slice = sl}

NodeChoices(a) ==
    Leaves
    \cup UNION { {Selection(j, b) : b \in PredicateBinaryExprs}
                 \cup {Slice(j, SliceLen), Sort(j)}
                 \cup {Union(<<j>>, sl) : sl \in SlicesFor(a)}
                 : j \in 1..Len(a) }
    \cup UNION { {HConcat(<<j, k>>)}
                 \cup {Union(<<j, k>>, sl) : sl \in SlicesFor(a)}
                 \cup {Join(j, k, how, sl) : how \in EstJoinTypes, sl \in SlicesFor(a)}
                 : j \in 1..Len(a), k \in 1..Len(a) }

InputsOf(lp) ==
    CASE lp.kind \in {"Selection", "Slice", "Sort"} -> {lp.input}
      [] lp.kind \in {"Union", "HConcat"} -> {lp.inputs[i] : i \in 1..Len(lp.inputs)}
      [] lp.kind = "Join" -> {lp.input_left, lp.input_right}
      [] OTHER -> {}

\* Every node but the last is the input of a later one: the last node, the
\* root, reaches them all.
AllReachable(a) ==
    \A h \in 1..(Len(a) - 1) : \E p \in (h + 1)..Len(a) : h \in InputsOf(a[p])

Root == Len(arena)

Call(node, fc) == [mode |-> "call", node |-> node, fc |-> fc, val |-> <<>>]

Ret(node, val) == [mode |-> "ret", node |-> node, fc |-> 0, val |-> val]

Panic(node, why) == [mode |-> "panic", node |-> node, fc |-> 0, val |-> <<why>>]

Frame(pc, node, lp, fc, idx, acc) ==
    [pc |-> pc, node |-> node, lp |-> lp, fc |-> fc, idx |-> idx, acc |-> acc]

Top == stack[Len(stack)]

Pop == SubSeq(stack, 1, Len(stack) - 1)

InitEst ==
    /\ HiveIdle
    /\ JoinIdle
    /\ EstIdle

\* Arena::add, by the plan builder.
AddNode ==
    /\ ctl = Idle
    /\ Len(arena) < MaxNodes
    /\ \E lp \in NodeChoices(arena) : arena' = Append(arena, lp)
    /\ UNCHANGED <<varsHive, varsJoin, stack, scratch, ctl, overflowed>>

\* The caller's set_estimated_row_counts(root, lp_arena, expr_arena, 0, scratch)
\* on a plan whose nodes all belong to the root.
StartEstimate ==
    /\ ctl = Idle
    /\ arena # <<>>
    /\ AllReachable(arena)
    /\ ctl' = Call(Root, 0)
    /\ UNCHANGED <<varsHive, varsJoin, arena, stack, scratch, overflowed>>

Entering(kinds) == ctl.mode = "call" /\ arena[ctl.node].kind \in kinds

Returning(pc) == ctl.mode = "ret" /\ stack # <<>> /\ Top.pc = pc

\* Lines 143-150
EstSelection ==
    /\ Entering({"Selection"})
    /\ LET lp == arena[ctl.node] IN
         ctl' = Call(lp.input, ctl.fc + lp.nbin + 1)
    /\ UNCHANGED <<varsHive, varsJoin, arena, stack, scratch, overflowed>>

\* Lines 151-154
EstSlice ==
    /\ Entering({"Slice"})
    /\ LET lp == arena[ctl.node] IN
         /\ stack' = Append(stack, Frame("Slice", ctl.node, lp, ctl.fc, 0, <<>>))
         /\ ctl' = Call(lp.input, ctl.fc)
    /\ UNCHANGED <<varsHive, varsJoin, arena, scratch, overflowed>>

\* Lines 155-156
EstSliceRet ==
    /\ Returning("Slice")
    /\ ctl' = Ret(Top.node, apply_slice(ctl.val, Some(<<0, Top.lp.len>>)))
    /\ stack' = Pop
    /\ UNCHANGED <<varsHive, varsJoin, arena, scratch, overflowed>>

\* Lines 158-167: the Union is taken out of the arena and its first input entered.
EstUnion ==
    /\ Entering({"Union"})
    /\ LET lp == arena[ctl.node] IN
         /\ arena' = [arena EXCEPT ![ctl.node] = DefaultLp]
         /\ stack' = Append(stack, Frame("Union", ctl.node, lp, ctl.fc, 1, <<None, 0>>))
         /\ ctl' = Call(lp.inputs[1], 0)
    /\ UNCHANGED <<varsHive, varsJoin, scratch, overflowed>>

\* Lines 168-173: one branch's result, sliced, decayed and added.
UnionBranch(sum_output, out, slice) ==
    LET sliced == IF slice # None THEN apply_slice(out, Some(<<0, Unwrap(slice)[2]>>)) ELSE out
        decayed == estimate_sizes(sliced[1], sliced[2], sliced[3])
    IN <<sum_output[1], saturating_add(sum_output[2], decayed[2])>>

\* Lines 165-177: the next input is entered, or the Union is written back.
EstUnionRet ==
    /\ Returning("Union")
    /\ LET lp == Top.lp
            sum_output == UnionBranch(Top.acc, ctl.val, lp.slice)
       IN IF Top.idx < Len(lp.inputs)
          THEN /\ stack' = [stack EXCEPT ![Len(stack)].idx = Top.idx + 1,
                                          ![Len(stack)].acc = sum_output]
               /\ ctl' = Call(lp.inputs[Top.idx + 1], 0)
               /\ arena' = arena
          ELSE /\ arena' = [arena EXCEPT ![Top.node] = [lp EXCEPT !.rows = sum_output]]
               /\ stack' = Pop
               /\ ctl' = Ret(Top.node, <<sum_output[1], sum_output[2], 0>>)
    /\ UNCHANGED <<varsHive, varsJoin, scratch, overflowed>>

\* Lines 182-194: the Join is taken out of the arena and its left input entered.
EstJoin ==
    /\ Entering({"Join"})
    /\ LET lp == arena[ctl.node] IN
         /\ arena' = [arena EXCEPT ![ctl.node] = DefaultLp]
         /\ stack' = Append(stack, Frame("JoinLeft", ctl.node, lp, 0, 0, <<>>))
         /\ ctl' = Call(lp.input_left, 0)
    /\ UNCHANGED <<varsHive, varsJoin, scratch, overflowed>>

\* Lines 195-198
EstJoinLeftRet ==
    /\ Returning("JoinLeft")
    /\ LET rows_left == estimate_sizes(ctl.val[1], ctl.val[2], ctl.val[3]) IN
         stack' = [stack EXCEPT ![Len(stack)].pc = "JoinRight",
                                ![Len(stack)].lp.rows_left = rows_left,
                                ![Len(stack)].fc = ctl.val[3]]
    /\ ctl' = Call(Top.lp.input_right, 0)
    /\ UNCHANGED <<varsHive, varsJoin, arena, scratch, overflowed>>

\* Lines 199-239.  The products of line 212 and 214 are unchecked: where one
\* leaves usize a build with overflow checks panics and one without wraps.
EstJoinRightRet ==
    /\ Returning("JoinRight")
    /\ LET rows_right == estimate_sizes(ctl.val[1], ctl.val[2], ctl.val[3])
            lp == [Top.lp EXCEPT !.rows_right = rows_right]
            exact == JoinCombine(lp.how, lp.rows_left, lp.rows_right, Top.fc)
       IN \/ /\ TripleOverflows(exact)
             /\ ~overflowed
             /\ ctl' = Panic(Top.node, "overflow")
             /\ UNCHANGED <<arena, stack, overflowed>>
          \/ /\ arena' = [arena EXCEPT ![Top.node] = lp]
             /\ stack' = Pop
             /\ ctl' = Ret(Top.node, apply_slice(WrapTriple(exact), lp.slice))
             /\ overflowed' = (overflowed \/ TripleOverflows(exact))
    /\ UNCHANGED <<varsHive, varsJoin, scratch>>

\* Lines 244-247
EstDataFrameScan ==
    /\ Entering({"DataFrameScan"})
    /\ LET len == arena[ctl.node].height IN
         ctl' = Ret(ctl.node, <<Some(len), len, ctl.fc>>)
    /\ UNCHANGED <<varsHive, varsJoin, arena, stack, scratch, overflowed>>

\* Lines 248-251
EstScan ==
    /\ Entering({"Scan"})
    /\ LET row_estimation == arena[ctl.node].row_estimation IN
         ctl' = Ret(ctl.node, <<row_estimation[1], row_estimation[2], ctl.fc>>)
    /\ UNCHANGED <<varsHive, varsJoin, arena, stack, scratch, overflowed>>

\* Lines 253-256
EstPythonScan ==
    /\ Entering({"PythonScan"})
    /\ ctl' = Ret(ctl.node, <<None, USIZE_MAX, ctl.fc>>)
    /\ UNCHANGED <<varsHive, varsJoin, arena, stack, scratch, overflowed>>

\* Lines 257-262: the node's inputs are pushed onto the shared scratch and
\* the last handle of scratch is popped and entered.
EstGeneric ==
    /\ Entering({"Sort", "HConcat"})
    /\ LET pushed == scratch \o copy_inputs(arena[ctl.node]) IN
         /\ scratch' = SubSeq(pushed, 1, Len(pushed) - 1)
         /\ stack' = Append(stack, Frame("Generic", ctl.node, <<>>, ctl.fc, 0, <<None, 0, 0>>))
         /\ ctl' = Call(pushed[Len(pushed)], ctl.fc)
    /\ UNCHANGED <<varsHive, varsJoin, arena, overflowed>>

\* Lines 260-270: the result is added (unchecked) and the loop pops scratch
\* again: whatever handle is there is entered, and the sum is returned only
\* once scratch is empty.
EstGenericRet ==
    /\ Returning("Generic")
    /\ LET exact == GenericSum(Top.acc, ctl.val) IN
         \/ /\ TripleOverflows(exact)
            /\ ~overflowed
            /\ ctl' = Panic(Top.node, "overflow")
            /\ UNCHANGED <<stack, scratch, overflowed>>
         \/ /\ overflowed' = (overflowed \/ TripleOverflows(exact))
            /\ IF scratch # <<>>
               THEN /\ scratch' = SubSeq(scratch, 1, Len(scratch) - 1)
                    /\ stack' = [stack EXCEPT ![Len(stack)].acc = WrapTriple(exact)]
                    /\ ctl' = Call(scratch[Len(scratch)], Top.fc)
               ELSE /\ scratch' = scratch
                    /\ stack' = Pop
                    /\ ctl' = Ret(Top.node, WrapTriple(exact))
    /\ UNCHANGED <<varsHive, varsJoin, arena>>

\* Line 142 on a handle whose node is taken: the match reads the placeholder,
\* a Selection whose input and predicate are Node(usize::MAX), and the lookup
\* of that predicate is out of bounds.
EstPlaceholder ==
    /\ Entering({"Default"})
    /\ ctl' = Panic(ctl.node, "placeholder")
    /\ UNCHANGED <<varsHive, varsJoin, arena, stack, scratch, overflowed>>

NextEst ==
    \/ AddNode
    \/ StartEstimate
    \/ EstSelection
    \/ EstSlice
    \/ EstSliceRet
    \/ EstUnion
    \/ EstUnionRet
    \/ EstJoin
    \/ EstJoinLeftRet
    \/ EstJoinRightRet
    \/ EstDataFrameScan
    \/ EstScan
    \/ EstPythonScan
    \/ EstGeneric
    \/ EstGenericRet
    \/ EstPlaceholder

SpecEst == InitEst /\ [][NextEst]_vars

Done == ctl.mode = "ret" /\ stack = <<>>

\* The node whose result is being returned.
ReturnedFrom(kind) == ctl.mode = "ret" /\ arena[ctl.node].kind = kind

\* C2: a Union with an output slice of length L returns and caches
\* (known = absent, estimated = the sum of its branches' decayed estimates
\* clamped to at most L), with filter count 0.
C2_UnionSumClamped ==
    (ReturnedFrom("Union") /\ arena[ctl.node].slice # None) =>
        /\ ctl.val[1] = None
        /\ ctl.val[2] <= Unwrap(arena[ctl.node].slice)[2]
        /\ ctl.val[3] = 0
        /\ arena[ctl.node].rows = <<None, ctl.val[2]>>

\* What the estimator returns for handle h when every node gathers its inputs
\* in a buffer of its own.
RECURSIVE OwnBuffer(_, _)
RECURSIVE OwnBufferUnion(_, _, _, _)
RECURSIVE OwnBufferInputs(_, _, _)
OwnBuffer(h, fc) ==
    LET lp == arena[h] IN
    CASE lp.kind = "Selection" -> OwnBuffer(lp.input, fc + lp.nbin + 1)
      [] lp.kind = "Slice" -> apply_slice(OwnBuffer(lp.input, fc), Some(<<0, lp.len>>))
      [] lp.kind = "Union" ->
            LET sum_output == OwnBufferUnion(lp.inputs, 1, <<None, 0>>, lp.slice)
            IN <<sum_output[1], sum_output[2], 0>>
      [] lp.kind = "Join" ->
            LET l == OwnBuffer(lp.input_left, 0)
                r == OwnBuffer(lp.input_right, 0)
            IN apply_slice(WrapTriple(JoinCombine(lp.how,
                                                  estimate_sizes(l[1], l[2], l[3]),
                                                  estimate_sizes(r[1], r[2], r[3]),
                                                  l[3])),
                           lp.slice)
      [] lp.kind = "DataFrameScan" -> <<Some(lp.height), lp.height, fc>>
      [] lp.kind = "Scan" -> <<lp.row_estimation[1], lp.row_estimation[2], fc>>
      [] lp.kind = "PythonScan" -> <<None, USIZE_MAX, fc>>
      [] OTHER -> OwnBufferInputs(copy_inputs(lp), fc, <<None, 0, 0>>)

OwnBufferUnion(inputs, idx, sum_output, slice) ==
    IF idx > Len(inputs) THEN sum_output
    ELSE OwnBufferUnion(inputs, idx + 1,
                        UnionBranch(sum_output, OwnBuffer(inputs[idx], 0), slice), slice)

OwnBufferInputs(buffer, fc, sum_output) ==
    IF buffer = <<>> THEN sum_output
    ELSE OwnBufferInputs(SubSeq(buffer, 1, Len(buffer) - 1), fc,
                         WrapTriple(GenericSum(sum_output, OwnBuffer(buffer[Len(buffer)], fc))))

\* C3: the pass returns what it would return if every node gathered its
\* inputs in a fresh buffer, and every Join caches the decayed results of its
\* own two inputs: no handle an ancestor left in scratch is consumed by a
\* descendant.
C3_ScratchIsTransparent ==
    (Done /\ ~overflowed) =>
        /\ ctl.val = OwnBuffer(Root, 0)
        /\ \A h \in 1..Len(arena) :
              arena[h].kind = "Join" =>
                 LET l == OwnBuffer(arena[h].input_left, 0)
                     r == OwnBuffer(arena[h].input_right, 0)
                 IN /\ arena[h].rows_left = estimate_sizes(l[1], l[2], l[3])
                    /\ arena[h].rows_right = estimate_sizes(r[1], r[2], r[3])

OtherEstimates == {0, 1}

\* C4: a Cross or Outer join whose decayed sides both have a known count
\* returns known = the product of the known counts and estimated = the left
\* estimate, and nothing it returns depends on the right estimate; when a
\* side has no known count it returns (absent, product of the estimates, 0).
\* The join's own slice clamps either result.
C4_CrossOuterDiscardsRightEstimate ==
    (ReturnedFrom("Join") /\ arena[ctl.node].how.kind \in {"Cross", "Outer"} /\ ~overflowed) =>
        LET lp == arena[ctl.node]
            rl == lp.rows_left
            rr == lp.rows_right
        IN IF rl[1] # None /\ rr[1] # None
           THEN /\ ctl.val[1] = apply_slice(<<Some(Unwrap(rl[1]) * Unwrap(rr[1])), 0, 0>>, lp.slice)[1]
                /\ ctl.val[2] = apply_slice(<<None, rl[2], 0>>, lp.slice)[2]
                /\ \A e \in OtherEstimates :
                      apply_slice(JoinCombine(lp.how, rl, <<rr[1], e>>, 0), lp.slice) = ctl.val
           ELSE ctl.val = apply_slice(<<None, rl[2] * rr[2], 0>>, lp.slice)

\* C5: no arithmetic of the pass leaves the range of usize, so the pass never
\* aborts on it and never continues on a wrapped value.
C5_NoOverflow ==
    /\ ~overflowed
    /\ ~(ctl.mode = "panic" /\ ctl.val = <<"overflow">>)

\* C9: no call of the pass reads a handle whose Join or Union is taken out of
\* the arena.
C9_NoReadOfTakenNode ==
    ctl.mode = "call" => arena[ctl.node].kind # "Default"

====
